---- MODULE Spec2Model ----
(***************************************************************************)
(* Model of the Merge dialog component, app/src/ui/merge-branch/merge.tsx. *)
(*                                                                         *)
(* The component keeps the selected branch, the merge status and the      *)
(* commit count in its React state.  Every non-null selection starts an   *)
(* asynchronous updateMergeStatus(branch); several of them can be in      *)
(* flight at once, and each resumes after its awaits whatever has been    *)
(* selected in the meantime.  JavaScript runs one task at a time, so each *)
(* action below is one task: an event handler up to its first await, or   *)
(* the continuation of an await up to the next one.                       *)
(***************************************************************************)
EXTENDS Integers, Sequences, FiniteSets, Bags, TLC

(* Largest number of updateMergeStatus calls in flight at the same time.   *)
MaxInFlight == 2

(* `null` for a Branch | null value.                                       *)
Null == 0

(* `undefined`: commitCount not known, initialBranch prop not passed.      *)
Undefined == -1

(* The Branch objects of the repository, compared by reference (===).      *)
Branches == {1, 2, 3}

(* Branch.name                                                             *)
name(b) ==
  CASE b = 1 -> "master"
    [] b = 2 -> "feature"
    [] b = 3 -> "hotfix"
    [] OTHER -> ""

(* The values of MergeResultStatus this component distinguishes, with      *)
(* "None" for a null mergeStatus.                                          *)
MergeResultKinds == {"Loading", "Clean", "Conflicts"}

(* What mergeTree can resolve to, and "Rejected" for a rejected promise.   *)
MergeTreeResults == {"Clean", "Conflicts"}
MergeTreeOutcomes == MergeTreeResults \cup {"Rejected"}

(* What getAheadBehind can resolve to: null or {ahead, behind}.            *)
NoAheadBehind == [ahead |-> Undefined, behind |-> Undefined]
AheadBehinds ==
  { [ahead |-> 1, behind |-> 0],
    [ahead |-> 0, behind |-> 2],
    [ahead |-> 2, behind |-> 1] }
AheadBehindResults == {NoAheadBehind} \cup AheadBehinds

VARIABLES
  currentBranch,      \* props.currentBranch
  defaultBranch,      \* props.defaultBranch, as the constructor reads it
  initialBranch,      \* props.initialBranch, Undefined when not passed
  conflictDetection,  \* what enableMergeConflictDetection() returns
  selectedBranch,     \* state.selectedBranch
  mergeStatus,        \* state.mergeStatus: "None" or a kind
  commitCount,        \* state.commitCount: Undefined or a number
  filterText,         \* state.filterText
  lifecycle,          \* "constructed", "mounted" or "dismissed"
  calls,              \* the updateMergeStatus calls in flight, a bag
  mergedBranch,       \* name given to dispatcher.mergeBranch, "" before
  dispatched,         \* the calls made on props.dispatcher, in order
  mergeStatusFor,     \* history: branch argument of the call that wrote mergeStatus
  commitCountFor,     \* history: branch argument of the call that wrote commitCount
  lastAheadBehind     \* history: what getAheadBehind returned last

props == <<currentBranch, defaultBranch, initialBranch, conflictDetection>>
state == <<selectedBranch, mergeStatus, commitCount, filterText>>
dispatcher == <<mergedBranch, dispatched>>
history == <<mergeStatusFor, commitCountFor, lastAheadBehind>>
vars == <<props, state, lifecycle, calls, dispatcher, history>>

(* The two places an updateMergeStatus call can wait at: the await of      *)
(* promiseWithMinimumTimeout(mergeTree) and the await of getAheadBehind.   *)
AwaitMergeTree(b) ==
  [pc |-> "mergeTree", branch |-> b, result |-> "Pending", timeoutExpired |-> FALSE]

AwaitAheadBehind(c) == [c EXCEPT !.pc = "getAheadBehind"]

InFlight == BagToSet(calls)
Started(c) == calls (+) SetToBag({c})
Finished(c) == calls (-) SetToBag({c})
Moved(c, d) == (calls (-) SetToBag({c})) (+) SetToBag({d})

resolveSelectedBranch_notCurrent(current, default, initial) ==
  IF initial # Undefined /\ initial # current
    THEN initial
    ELSE IF current = default THEN Null ELSE default

(* resolveSelectedBranch()                                                 *)
resolveSelectedBranch(current, default, initial) ==
  IF initial # Undefined
    THEN initial
    ELSE IF current = default THEN Null ELSE default

disabled_unknownCount ==
  \/ selectedBranch = Null
  \/ currentBranch = Null
  \/ name(currentBranch) = name(selectedBranch)
  \/ commitCount \in {0, Undefined}

disabled_withoutCount ==
  \/ selectedBranch = Null
  \/ currentBranch = Null
  \/ name(currentBranch) = name(selectedBranch)

(* The `disabled` attribute render() gives the submit button.              *)
disabled ==
  \/ selectedBranch = Null
  \/ currentBranch = Null
  \/ name(currentBranch) = name(selectedBranch)
  \/ commitCount = 0

(* Whether the submit button can be pressed.                               *)
canSubmitMerge == ~disabled

(* constructor                                                             *)
Init ==
  /\ currentBranch \in {Null, 1}
  /\ defaultBranch \in Branches \cup {Null}
  /\ initialBranch \in Branches \cup {Undefined}
  /\ conflictDetection \in BOOLEAN
  /\ selectedBranch = resolveSelectedBranch(currentBranch, defaultBranch, initialBranch)
  /\ commitCount = Undefined
  /\ filterText = ""
  /\ mergeStatus = "None"
  /\ lifecycle = "constructed"
  /\ calls = EmptyBag
  /\ mergedBranch = ""
  /\ dispatched = <<>>
  /\ mergeStatusFor = Null
  /\ commitCountFor = Null
  /\ lastAheadBehind = NoAheadBehind

detectsConflicts_flagOnly == conflictDetection

(* Whether updateMergeStatus takes the mergeTree path (line 270).          *)
detectsConflicts == conflictDetection /\ currentBranch # Null

updateMergeStatus_withoutLoading(branch) ==
  /\ UNCHANGED <<mergeStatus, mergeStatusFor>>
  /\ calls' = Started(IF detectsConflicts
                         THEN AwaitMergeTree(branch)
                         ELSE AwaitAheadBehind(AwaitMergeTree(branch)))

updateMergeStatus_concurrent(branch) ==
  /\ mergeStatus' = "Loading"
  /\ mergeStatusFor' = branch
  /\ calls' = Started(AwaitAheadBehind(AwaitMergeTree(branch)))

(* updateMergeStatus(branch) up to its first await: Loading is set, and    *)
(* the call waits for promiseWithMinimumTimeout(mergeTree) or, without     *)
(* conflict detection, directly for getAheadBehind.                        *)
updateMergeStatus(branch) ==
  /\ mergeStatus' = "Loading"
  /\ mergeStatusFor' = branch
  /\ calls' = Started(IF detectsConflicts
                         THEN AwaitMergeTree(branch)
                         ELSE AwaitAheadBehind(AwaitMergeTree(branch)))

(* componentDidMount().  Nothing reads props.defaultBranch and             *)
(* props.initialBranch after the constructor, and the model forgets them   *)
(* here.                                                                   *)
componentDidMount ==
  /\ lifecycle = "constructed"
  /\ lifecycle' = "mounted"
  /\ IF selectedBranch = Null
       THEN UNCHANGED <<mergeStatus, mergeStatusFor, calls>>
       ELSE updateMergeStatus(selectedBranch)
  /\ defaultBranch' = Null
  /\ initialBranch' = Undefined
  /\ UNCHANGED <<currentBranch, conflictDetection, selectedBranch, commitCount,
                 filterText, dispatcher, commitCountFor, lastAheadBehind>>

(* onFilterTextChanged(text)                                               *)
onFilterTextChanged(text) ==
  /\ lifecycle = "mounted"
  /\ text # filterText
  /\ filterText' = text
  /\ UNCHANGED <<props, selectedBranch, mergeStatus, commitCount, lifecycle, calls,
                 dispatcher, history>>

onSelectionChanged_keepsCount(branch) ==
  /\ lifecycle = "mounted"
  /\ branch # selectedBranch
  /\ selectedBranch' = branch
  /\ IF branch # Null
       THEN /\ BagCardinality(calls) < MaxInFlight
            /\ updateMergeStatus(branch)
            /\ UNCHANGED <<commitCount, commitCountFor>>
       ELSE /\ mergeStatus' = "None"
            /\ mergeStatusFor' = Null
            /\ UNCHANGED <<commitCount, commitCountFor, calls>>
  /\ UNCHANGED <<props, filterText, lifecycle, dispatcher, lastAheadBehind>>

(* onSelectionChanged(branch): the branch list reports a new selection.    *)
onSelectionChanged(branch) ==
  /\ lifecycle = "mounted"
  /\ branch # selectedBranch
  /\ selectedBranch' = branch
  /\ IF branch # Null
       THEN /\ BagCardinality(calls) < MaxInFlight
            /\ updateMergeStatus(branch)
            /\ UNCHANGED <<commitCount, commitCountFor>>
       ELSE /\ commitCount' = 0
            /\ mergeStatus' = "None"
            /\ mergeStatusFor' = Null
            /\ commitCountFor' = Null
            /\ UNCHANGED calls
  /\ UNCHANGED <<props, filterText, lifecycle, dispatcher, lastAheadBehind>>

(* mergeTree(repository, currentBranch, branch) finishes for call c.       *)
mergeTreeCompletes(c, outcome) ==
  /\ lifecycle = "mounted"
  /\ c.pc = "mergeTree"
  /\ c.result = "Pending"
  /\ calls' = Moved(c, [c EXCEPT !.result = outcome])
  /\ UNCHANGED <<props, state, lifecycle, dispatcher, history>>

(* The 500 ms timer of call c's promiseWithMinimumTimeout fires.           *)
timeoutExpires(c) ==
  /\ lifecycle = "mounted"
  /\ c.pc = "mergeTree"
  /\ ~c.timeoutExpired
  /\ calls' = Moved(c, [c EXCEPT !.timeoutExpired = TRUE])
  /\ UNCHANGED <<props, state, lifecycle, dispatcher, history>>

(* promiseWithMinimumTimeout(action, timeout) settles, with the action's   *)
(* result or failure, once the action has completed and the timeout has    *)
(* expired.                                                                *)
promiseWithMinimumTimeout(c) == c.result # "Pending" /\ c.timeoutExpired

mergeStatusAwaited_mergeTreeOnly(c) == c.result # "Pending"

(* The await of lines 271-274 is over for call c.                          *)
mergeStatusAwaited(c) == promiseWithMinimumTimeout(c)

(* updateMergeStatus resumes after the await of promiseWithMinimumTimeout: *)
(* a rejection ends the call there; otherwise the merge status is set and  *)
(* getAheadBehind is called.                                               *)
resumeWithMergeStatus(c) ==
  /\ lifecycle = "mounted"
  /\ c.pc = "mergeTree"
  /\ mergeStatusAwaited(c)
  /\ IF c.result = "Rejected"
       THEN /\ calls' = Finished(c)
            /\ UNCHANGED <<mergeStatus, mergeStatusFor>>
       ELSE /\ mergeStatus' = c.result
            /\ mergeStatusFor' = c.branch
            /\ calls' = Moved(c, AwaitAheadBehind(c))
  /\ UNCHANGED <<props, selectedBranch, commitCount, filterText, lifecycle,
                 dispatcher, commitCountFor, lastAheadBehind>>

branchChanged_never(branch) == FALSE

(* The test of line 283: the selection is no longer the call's branch.     *)
branchChanged(branch) == selectedBranch # branch

(* The state line 285 sets when the branch changed.                        *)
commitCountWhenChanged == Undefined

behindCount_ahead(aheadBehind) ==
  IF aheadBehind # NoAheadBehind THEN aheadBehind.ahead ELSE 0

(* Line 281: the commit count a getAheadBehind result stands for.          *)
behindCount(aheadBehind) ==
  IF aheadBehind # NoAheadBehind THEN aheadBehind.behind ELSE 0

(* updateMergeStatus resumes after the await of getAheadBehind.            *)
resumeWithAheadBehind(c, aheadBehind) ==
  /\ lifecycle = "mounted"
  /\ c.pc = "getAheadBehind"
  /\ LET count == behindCount(aheadBehind)
     IN IF branchChanged(c.branch)
          THEN /\ commitCount' = commitCountWhenChanged
               /\ commitCountFor' = Null
          ELSE /\ commitCount' = count
               /\ commitCountFor' = c.branch
  /\ calls' = Finished(c)
  /\ lastAheadBehind' = aheadBehind
  /\ UNCHANGED <<props, selectedBranch, mergeStatus, filterText, lifecycle,
                 dispatcher, mergeStatusFor>>

mergeCalls_closeFirst(branch) ==
  << [method |-> "closePopup", branch |-> ""],
     [method |-> "mergeBranch", branch |-> name(branch)] >>

(* Lines 297-298: the calls merge() makes on the dispatcher for a branch.  *)
mergeCalls(branch) ==
  << [method |-> "mergeBranch", branch |-> name(branch)],
     [method |-> "closePopup", branch |-> ""] >>

(* The submit button is pressed: render() disables it under `disabled`,    *)
(* and the dialog's onSubmit is merge().                                   *)
merge ==
  /\ lifecycle = "mounted"
  /\ ~disabled
  /\ IF selectedBranch = Null
       THEN UNCHANGED <<lifecycle, dispatcher>>
       ELSE /\ mergedBranch' = name(selectedBranch)
            /\ dispatched' = dispatched \o mergeCalls(selectedBranch)
            /\ lifecycle' = "dismissed"
  /\ UNCHANGED <<props, state, calls, history>>

FilterTexts == {"", "f"}

Next ==
  \/ componentDidMount
  \/ \E text \in FilterTexts : onFilterTextChanged(text)
  \/ \E branch \in Branches \cup {Null} : onSelectionChanged(branch)
  \/ \E c \in InFlight, outcome \in MergeTreeOutcomes : mergeTreeCompletes(c, outcome)
  \/ \E c \in InFlight : timeoutExpires(c)
  \/ \E c \in InFlight : resumeWithMergeStatus(c)
  \/ \E c \in InFlight, aheadBehind \in AheadBehindResults : resumeWithAheadBehind(c, aheadBehind)
  \/ merge

Spec == Init /\ [][Next]_vars

(* The same program when no mergeTree call is rejected.                    *)
NextResolved ==
  \/ componentDidMount
  \/ \E text \in FilterTexts : onFilterTextChanged(text)
  \/ \E branch \in Branches \cup {Null} : onSelectionChanged(branch)
  \/ \E c \in InFlight, outcome \in MergeTreeResults : mergeTreeCompletes(c, outcome)
  \/ \E c \in InFlight : timeoutExpires(c)
  \/ \E c \in InFlight : resumeWithMergeStatus(c)
  \/ \E c \in InFlight, aheadBehind \in AheadBehindResults : resumeWithAheadBehind(c, aheadBehind)
  \/ merge

SpecResolved == Init /\ [][NextResolved]_vars

TypeOK ==
  /\ currentBranch \in Branches \cup {Null}
  /\ defaultBranch \in Branches \cup {Null}
  /\ initialBranch \in Branches \cup {Undefined}
  /\ conflictDetection \in BOOLEAN
  /\ selectedBranch \in Branches \cup {Null}
  /\ mergeStatus \in MergeResultKinds \cup {"None"}
  /\ commitCount \in {Undefined} \cup 0 .. 2
  /\ filterText \in FilterTexts
  /\ lifecycle \in {"constructed", "mounted", "dismissed"}
  /\ BagCardinality(calls) <= MaxInFlight
  /\ \A c \in InFlight :
       /\ c.pc \in {"mergeTree", "getAheadBehind"}
       /\ c.branch \in Branches
       /\ c.result \in MergeTreeOutcomes \cup {"Pending"}
       /\ c.timeoutExpired \in BOOLEAN
  /\ mergedBranch \in {"", "master", "feature", "hotfix"}
  /\ Len(dispatched) \in {0, 2}
  /\ lastAheadBehind \in AheadBehindResults

(***************************************************************************)
(* Which call a step belongs to.  Calls are told apart by their record, so *)
(* a step of call c is a step after which the bag holds one c fewer.       *)
(***************************************************************************)
Leaves(c) == CopiesIn(c, calls') < CopiesIn(c, calls)

Awaiting(pc, bag) ==
  BagCardinality([c \in {d \in BagToSet(bag) : d.pc = pc} |-> bag[c]])

(* Call c resumes after its await of promiseWithMinimumTimeout.            *)
ResumesWithMergeStatus(c) ==
  /\ c.pc = "mergeTree"
  /\ Leaves(c)
  /\ Awaiting("mergeTree", calls') < Awaiting("mergeTree", calls)

(* Call c resumes after its await of getAheadBehind.                       *)
ResumesWithAheadBehind(c) ==
  /\ c.pc = "getAheadBehind"
  /\ Leaves(c)

(* C1: a mergeTree result computed for a branch is written to mergeStatus  *)
(* only while that branch is still the selected one.                       *)
C1_MergeStatusOnlyForSelected ==
  [][\A c \in InFlight :
       ResumesWithMergeStatus(c) /\ c.result \in MergeTreeResults
         => selectedBranch = c.branch]_vars

(* C2: a step that writes a number to commitCount for the call of branch X *)
(* is taken while X is the selected branch.                                *)
C2_CommitCountOnlyForSelected ==
  [][\A c \in InFlight :
       ResumesWithAheadBehind(c) /\ commitCount' # Undefined
         => selectedBranch = c.branch]_vars

(* A count has been applied for the selected branch while a call for       *)
(* another branch is still in flight.                                      *)
C2_Witness ==
  /\ selectedBranch # Null
  /\ commitCountFor = selectedBranch
  /\ commitCount = 2
  /\ \E c \in InFlight : c.branch # selectedBranch

(* C3: when every call has completed, none of them rejected, the state is  *)
(* the one of the last selection: the merge status is the mergeTree result *)
(* for the selected branch and the commit count is the count for it.       *)
C3_Convergence ==
  (/\ lifecycle = "mounted"
   /\ detectsConflicts
   /\ selectedBranch # Null
   /\ calls = EmptyBag)
    => /\ mergeStatus \in MergeTreeResults
       /\ mergeStatusFor = selectedBranch
       /\ commitCount # Undefined
       /\ commitCountFor = selectedBranch

C5_CanSubmitMerge ==
  /\ canSubmitMerge <=>
       /\ selectedBranch # Null
       /\ currentBranch # Null
       /\ name(currentBranch) # name(selectedBranch)
       /\ commitCount # 0
  /\ (selectedBranch # Null /\ currentBranch # Null
        /\ name(currentBranch) = name(selectedBranch)) => ~canSubmitMerge
  /\ (selectedBranch # Null /\ currentBranch # Null
        /\ name(currentBranch) # name(selectedBranch)
        /\ commitCount = Undefined) => canSubmitMerge

(* The count is still unknown and the action is enabled.                   *)
C5_Witness ==
  /\ lifecycle = "mounted"
  /\ commitCount = Undefined
  /\ calls # EmptyBag
  /\ canSubmitMerge

C7_InitialSelection ==
  lifecycle = "constructed"
    => /\ initialBranch # Undefined => selectedBranch = initialBranch
       /\ initialBranch = Undefined /\ currentBranch = defaultBranch
            => selectedBranch = Null
       /\ initialBranch = Undefined /\ currentBranch # defaultBranch
            => selectedBranch = defaultBranch

(* The dialog was opened with the current branch as initialBranch.         *)
C7_Witness ==
  /\ lifecycle = "constructed"
  /\ initialBranch # Undefined
  /\ initialBranch = currentBranch
  /\ defaultBranch # initialBranch
  /\ selectedBranch = currentBranch

(* C8: a call goes on after promiseWithMinimumTimeout, with the result or  *)
(* with the rejection of mergeTree, only when its mergeTree has completed  *)
(* and its own 500 ms timer has fired; and a timer that fires is the timer *)
(* of one call, the other calls in flight stay as they are.                *)
C8_MinimumTimeout ==
  [][\A c \in InFlight :
       /\ ResumesWithMergeStatus(c) => c.result # "Pending" /\ c.timeoutExpired
       /\ (c.pc = "mergeTree" /\ ~c.timeoutExpired /\ Leaves(c)
             /\ Awaiting("mergeTree", calls') = Awaiting("mergeTree", calls)
             /\ CopiesIn([c EXCEPT !.timeoutExpired = TRUE], calls')
                  > CopiesIn([c EXCEPT !.timeoutExpired = TRUE], calls))
            => calls' = Moved(c, [c EXCEPT !.timeoutExpired = TRUE])]_vars

(* One call has gone on after its timer, while the mergeTree of another    *)
(* has completed and its timer has not fired yet.                          *)
C8_Witness ==
  /\ \E c \in InFlight :
       c.pc = "getAheadBehind" /\ c.timeoutExpired /\ c.result \in MergeTreeResults
  /\ \E c \in InFlight :
       c.pc = "mergeTree" /\ ~c.timeoutExpired /\ c.result \in MergeTreeResults
  /\ mergeStatus = "Loading"

(* C9: when getAheadBehind returns for a branch that is no longer the      *)
(* selected one, the continuation changes no field of the state.           *)
C9_StaleCountDiscarded ==
  [][\A c \in InFlight :
       ResumesWithAheadBehind(c) /\ selectedBranch # c.branch
         => UNCHANGED state]_vars

C11_MergeTreeFailureDegrades ==
  [][\A c \in InFlight :
       (ResumesWithMergeStatus(c) /\ c.result = "Rejected"
          /\ selectedBranch = c.branch)
         => /\ mergeStatus' # "Loading"
            /\ CopiesIn(AwaitAheadBehind(c), calls')
                 > CopiesIn(AwaitAheadBehind(c), calls)]_vars

(* C12 as stated: without conflict detection, or without a current branch, *)
(* mergeTree is never called and the merge status stays null.              *)
C12_MergeStatusStaysNull ==
  ~(conflictDetection /\ currentBranch # Null)
    => /\ mergeStatus = "None"
       /\ \A c \in InFlight : c.pc = "getAheadBehind" /\ c.result = "Pending"

(* C12 as amended: without conflict detection, or without a current        *)
(* branch, mergeTree is never called; the merge status is Loading from the *)
(* selection of a branch on and is never a mergeTree result; every call    *)
(* only waits for getAheadBehind.                                          *)
C12_MergeStatusStaysLoading ==
  (~(conflictDetection /\ currentBranch # Null) /\ lifecycle # "constructed")
    => /\ \A c \in InFlight :
            /\ c.pc = "getAheadBehind"
            /\ c.result = "Pending"
            /\ ~c.timeoutExpired
       /\ selectedBranch # Null => mergeStatus = "Loading"
       /\ selectedBranch = Null => mergeStatus = "None"

(* Conflict detection is on, there is no current branch, and the count of  *)
(* the selected branch has been applied.                                   *)
C12_Witness ==
  /\ conflictDetection
  /\ currentBranch = Null
  /\ selectedBranch # Null
  /\ commitCountFor = selectedBranch
  /\ commitCount = 1
  /\ mergeStatus = "Loading"
  /\ calls = EmptyBag

(* C13: the selection of a branch sets selectedBranch and the Loading      *)
(* merge status in one step, which also starts the call for that branch;   *)
(* so does mounting with a branch selected, and mounting with none starts  *)
(* no call and leaves the merge status alone.                              *)
C13_LoadingAtOnce ==
  [][/\ (selectedBranch' # selectedBranch /\ selectedBranch' # Null)
         => /\ mergeStatus' = "Loading"
            /\ \E c \in BagToSet(calls') :
                 /\ c.branch = selectedBranch'
                 /\ c.result = "Pending"
                 /\ calls' = Started(c)
     /\ (lifecycle = "constructed" /\ lifecycle' = "mounted" /\ selectedBranch # Null)
         => /\ mergeStatus' = "Loading"
            /\ \E c \in BagToSet(calls') :
                 /\ c.branch = selectedBranch
                 /\ c.result = "Pending"
                 /\ calls' = Started(c)
     /\ (lifecycle = "constructed" /\ lifecycle' = "mounted" /\ selectedBranch = Null)
         => /\ calls' = calls
            /\ mergeStatus' = mergeStatus]_vars

(* A branch has been selected while the call of another was in flight, and *)
(* nothing has completed for it yet.                                       *)
C13_Witness ==
  /\ lifecycle = "mounted"
  /\ selectedBranch # Null
  /\ mergeStatus = "Loading"
  /\ mergeStatusFor = selectedBranch
  /\ \E c \in InFlight : c.branch = selectedBranch /\ c.result = "Pending"
  /\ \E c \in InFlight : c.branch # selectedBranch

(* C14: when getAheadBehind returns for the branch that is still selected, *)
(* the commit count becomes 0 if it returned nothing, which disables the   *)
(* merge action, and the behind count of what it returned otherwise.       *)
C14_CommitCountIsBehind ==
  [][\A c \in InFlight :
       (ResumesWithAheadBehind(c) /\ selectedBranch = c.branch)
         => /\ lastAheadBehind' = NoAheadBehind
                 => commitCount' = 0 /\ ~canSubmitMerge'
            /\ lastAheadBehind' # NoAheadBehind
                 => commitCount' = lastAheadBehind'.behind]_vars

(* getAheadBehind returned nothing for the selected branch, which could    *)
(* have been merged but for the count.                                     *)
C14_Witness ==
  /\ lifecycle = "mounted"
  /\ selectedBranch # Null
  /\ currentBranch # Null
  /\ name(currentBranch) # name(selectedBranch)
  /\ commitCountFor = selectedBranch
  /\ lastAheadBehind = NoAheadBehind
  /\ commitCount = 0

C16_CountKeptUntilOwnContinuation ==
  [][/\ (selectedBranch' # selectedBranch /\ selectedBranch' # Null)
         => commitCount' = commitCount /\ filterText' = filterText
     /\ (/\ selectedBranch # Null
         /\ commitCount # Undefined
         /\ commitCountFor \notin {Null, selectedBranch}
         /\ commitCount' # commitCount)
         => \/ selectedBranch' = Null
            \/ \E c \in InFlight :
                 ResumesWithAheadBehind(c) /\ c.branch = selectedBranch]_vars
====
